---- MODULE Spec2Model ----
(***************************************************************************)
(* The pixz command-line front end (src/src/pixz.c): option parsing,       *)
(* positional-argument validation, automatic output naming, stream         *)
(* provisioning, dispatch to the engine and removal of the input.          *)
(*                                                                         *)
(* A C string is a sequence of one-character strings.  A nullable pointer  *)
(* is NULL (the empty tuple) or Ptr(x).  A uint32_t is the set of its set  *)
(* bit positions, so that bit 31 needs no 64-bit arithmetic.               *)
(***************************************************************************)
EXTENDS Integers, Sequences, FiniteSets, TLC

(***************************************************************************)
(* Bounds of the model.                                                    *)
(***************************************************************************)
\* options consumed by the getopt loop in one run
MaxFlags == 3
\* positional arguments left after the options
MaxArgs == 3
\* suffix pieces appended to a stem to build the resolver's input names
MaxPieces == 2

(***************************************************************************)
(* Program constants.                                                      *)
(***************************************************************************)
LZMA_PRESET_DEFAULT == 6
LZMA_PRESET_EXTREME_BIT == 31
EXIT_OK == 0
EXIT_USAGE == 2
EXIT_DIE == 1
\* the status of a process ended by SIGSEGV, as the shell reports it
EXIT_SIGSEGV == 139
\* the process has not exited yet
RUNNING == -1
\* The number written in octal with the digits d.
RECURSIVE Octal(_)
Octal(d) ==
    IF d = <<>> THEN 0
    ELSE 8 * Octal(SubSeq(d, 1, Len(d) - 1)) + d[Len(d)]

\* creation mode fopen(path, "w") asks for
FOPEN_MODE == Octal(<<6, 6, 6>>)
\* the permission bits open(2) keeps of its mode argument
S_IALLUGO == Octal(<<7, 7, 7, 7>>)

OP_WRITE == "OP_WRITE"
OP_READ == "OP_READ"
OP_EXTRACT == "OP_EXTRACT"
OP_LIST == "OP_LIST"
pixz_op_t == {OP_WRITE, OP_READ, OP_EXTRACT, OP_LIST}

NULL == <<>>
Ptr(x) == <<x>>
Deref(p) == p[1]

\* the terminating zero byte of a C string
NUL == "NUL"

(***************************************************************************)
(* Integers as bits.                                                       *)
(***************************************************************************)
RECURSIVE BitAnd(_, _)
BitAnd(a, b) ==
    IF a = 0 \/ b = 0 THEN 0
    ELSE (a % 2) * (b % 2) + 2 * BitAnd(a \div 2, b \div 2)

\* a & ~b
BitClear(a, b) == a - BitAnd(a, b)

RECURSIVE BitsFrom(_, _)
BitsFrom(n, i) ==
    IF n = 0 THEN {}
    ELSE (IF n % 2 = 1 THEN {i} ELSE {}) \cup BitsFrom(n \div 2, i + 1)

\* the uint32_t holding n
U32(n) == BitsFrom(n, 0)

(***************************************************************************)
(* The usage messages, src/src/pixz.c.                                     *)
(***************************************************************************)
MSG_NONE == "(none)"
MSG_HELP == "(help)"
MSG_VERSION == "(version)"
MSG_BADOPT == ""
MSG_F == "Need a positive floating-point argument to -f"
MSG_P == "Need a non-negative integer argument to -p"
MSG_Q == "Need a positive integer argument to -q"
MSG_TOOMANY == "Too many arguments"
MSG_MULTI_IN == "Multiple input files specified"
MSG_MULTI_OUT == "Multiple output files specified"
MSG_SUFFIX == "Unknown suffix"
MSG_TTY == "Refusing to output to a TTY"
MSG_OPEN_IN == "can not open input file"
MSG_OPEN_OUT == "can not open output file"
MSG_ENGINE == "(engine failure)"
MSG_SEGV == "(segmentation fault)"

(***************************************************************************)
(* Strings.                                                                *)
(***************************************************************************)
SUF_TAR_XZ == <<".", "t", "a", "r", ".", "x", "z">>
SUF_TPXZ == <<".", "t", "p", "x", "z">>
SUF_XZ == <<".", "x", "z">>
SUF_TAR == <<".", "t", "a", "r">>
SUF_NONE == <<>>

strlen(s) == Len(s)

\* The C string that starts at index p of mem: the bytes up to the first NUL.
RECURSIVE CStr(_, _)
CStr(mem, p) ==
    IF p > Len(mem) \/ mem[p] = NUL THEN <<>>
    ELSE <<mem[p]>> \o CStr(mem, p + 1)

\* The memory around the string big: the bytes before it, big, its NUL.
Memory(pre, big) == pre \o big \o <<NUL>>

\* strsuf's start offset into big, as the signed number bl - sl.
SufOffset(big, small) == strlen(big) - strlen(small)

\* strcmp(big + bl - sl, small) == 0.  The pointer big + bl - sl lies before
\* big when big is shorter than small; the comparison then reads pre.
strsuf(pre, big, small) ==
    CStr(Memory(pre, big), Len(pre) + 1 + SufOffset(big, small)) = small

SEGV == <<"SEGV">>

\* NULL, the new name, or (copy length wrapped below zero) a fault in memcpy.
subsuf(pre, in, suf1, suf2) ==
    IF ~strsuf(pre, in, suf1) THEN NULL
    ELSE IF strlen(in) - strlen(suf1) < 0 THEN SEGV
    ELSE Ptr(SubSeq(in, 1, strlen(in) - strlen(suf1)) \o suf2)

\* A slip in the order of the table: the catch-all Write row put first.
SufTable_catchAllFirst ==
    << [op |-> OP_READ,  s1 |-> SUF_TAR_XZ, s2 |-> SUF_TAR],
       [op |-> OP_READ,  s1 |-> SUF_TPXZ,   s2 |-> SUF_TAR],
       [op |-> OP_READ,  s1 |-> SUF_XZ,     s2 |-> SUF_NONE],
       [op |-> OP_WRITE, s1 |-> SUF_NONE,   s2 |-> SUF_XZ],
       [op |-> OP_WRITE, s1 |-> SUF_TAR,    s2 |-> SUF_TPXZ] >>

\* The SUF table of auto_output, in the order of the source.
SufTable ==
    << [op |-> OP_READ,  s1 |-> SUF_TAR_XZ, s2 |-> SUF_TAR],
       [op |-> OP_READ,  s1 |-> SUF_TPXZ,   s2 |-> SUF_TAR],
       [op |-> OP_READ,  s1 |-> SUF_XZ,     s2 |-> SUF_NONE],
       [op |-> OP_WRITE, s1 |-> SUF_TAR,    s2 |-> SUF_TPXZ],
       [op |-> OP_WRITE, s1 |-> SUF_NONE,   s2 |-> SUF_XZ] >>

\* One SUF(_op, _s1, _s2): the value returned, or NULL to fall through.
SUF(pre, op, in, row) ==
    IF op = row.op THEN subsuf(pre, in, row.s1, row.s2) ELSE NULL

RECURSIVE auto_output_from(_, _, _, _)
auto_output_from(pre, op, in, i) ==
    IF i > Len(SufTable) THEN NULL
    ELSE LET r == SUF(pre, op, in, SufTable[i])
         IN  IF r # NULL THEN r ELSE auto_output_from(pre, op, in, i + 1)

auto_output(pre, op, in) == auto_output_from(pre, op, in, 1)

\* The start offsets of the strsuf calls auto_output makes, in order: a SUF
\* of another mode makes no call, and no call follows the SUF that returns.
RECURSIVE strsuf_offsets_from(_, _, _, _)
strsuf_offsets_from(pre, op, in, i) ==
    IF i > Len(SufTable) THEN <<>>
    ELSE LET row == SufTable[i]
         IN  IF op # row.op THEN strsuf_offsets_from(pre, op, in, i + 1)
             ELSE <<SufOffset(in, row.s1)>> \o
                  (IF subsuf(pre, in, row.s1, row.s2) # NULL THEN <<>>
                   ELSE strsuf_offsets_from(pre, op, in, i + 1))

strsuf_offsets(pre, op, in) == strsuf_offsets_from(pre, op, in, 1)

(***************************************************************************)
(* Option arguments: strtol and strtod.                                    *)
(***************************************************************************)
DigitVal(c) ==
    CASE c = "0" -> 0 [] c = "1" -> 1 [] c = "2" -> 2 [] c = "3" -> 3
      [] c = "4" -> 4 [] c = "5" -> 5 [] c = "6" -> 6 [] c = "7" -> 7
      [] c = "8" -> 8 [] c = "9" -> 9

IsDigit(c) == c \in {"0", "1", "2", "3", "4", "5", "6", "7", "8", "9"}

\* The digits of s from index i on: [val, next], next the first index not read.
RECURSIVE ParseDigits(_, _, _)
ParseDigits(s, i, acc) ==
    IF i <= Len(s) /\ IsDigit(s[i])
    THEN ParseDigits(s, i + 1, 10 * acc + DigitVal(s[i]))
    ELSE [val |-> acc, next |-> i]

\* strtol(s, &end, 10): an optional sign, then digits; without a digit the
\* value is 0 and end is s itself.
strtol(s) ==
    LET signed == Len(s) >= 1 /\ s[1] \in {"-", "+"}
        first  == IF signed THEN 2 ELSE 1
        d      == ParseDigits(s, first, 0)
    IN  IF d.next = first
        THEN [val |-> 0, end |-> s]
        ELSE [val |-> IF signed /\ s[1] = "-" THEN 0 - d.val ELSE d.val,
              end |-> SubSeq(s, d.next, Len(s))]

\* strtod on the option arguments of OptArgs, none of which holds a
\* fraction, an exponent or a name: on these it reads what strtol reads.
strtod(s) == strtol(s)

\* The arguments given to -f, -p and -q.
OptArgs == { <<"2">>, <<"-", "1">>, <<"2", "x">>, <<>> }

(***************************************************************************)
(* The names on the command line and the files of the environment.         *)
(***************************************************************************)
NameA == <<"a">> \o SUF_TAR
NameB == <<"b">> \o SUF_XZ
Names == {NameA, NameB}

\* Every list of at most n names.
RECURSIVE ListsUpTo(_, _)
ListsUpTo(S, n) ==
    IF n = 0 THEN {<<>>}
    ELSE LET shorter == ListsUpTo(S, n - 1)
         IN  shorter \cup {Append(l, x) : l \in shorter, x \in S}

ArgLists == ListsUpTo(Names, MaxArgs)

\* The bytes in memory before the first positional argument: the end of the
\* argument before it.  The argument strings lie back to back, so the byte
\* just before a string is the NUL that ends its neighbour.
PreAfterOption == <<"p", "i", "x", "z", "-", "d", NUL>>
PreChoices ==
    { PreAfterOption,
      <<"z", NUL, ".", "t", "a", "r", NUL>> }

\* The names the resolver is tried on: a stem and up to MaxPieces pieces.
Stems == { <<>>, <<"a">> }
Pieces == { SUF_TAR_XZ, SUF_TPXZ, SUF_XZ, SUF_TAR, <<".", "t", "x", "t">>,
            <<"x", "z">>, <<"z">>, <<"r", ".", "x", "z">> }

RECURSIVE NamesOf(_)
NamesOf(k) ==
    IF k = 0 THEN Stems
    ELSE NamesOf(k - 1) \cup {n \o p : n \in NamesOf(k - 1), p \in Pieces}

ResolverNames == NamesOf(MaxPieces)

OldContent == <<"o", "o">>
EngineData == { <<"n">>, <<"n", "n", "n">> }
MODE_644 == Octal(<<6, 4, 4>>)
MODE_666 == Octal(<<6, 6, 6>>)
MODE_600 == Octal(<<6, 0, 0>>)
MODE_620 == Octal(<<6, 2, 0>>)
UMASK_022 == Octal(<<0, 2, 2>>)

File(mode, content, tty) == [mode |-> mode, content |-> content, tty |-> tty]

\* No file exists.
FsEmpty == [p \in {} |-> File(0, <<>>, FALSE)]
\* A terminal device, given only as the argument of -o.
TtyName == <<"/", "d", "e", "v", "/", "t", "t", "y">>
TtyDevice == [p \in {TtyName} |-> File(MODE_620, <<>>, TRUE)]
\* The named files exist; no derived name exists.
FsInputs ==
    [p \in Names |->
        IF p = NameA THEN File(MODE_644, OldContent, FALSE)
        ELSE File(MODE_666, OldContent, FALSE)]
    @@ TtyDevice
\* The named files exist, and so does every name derived from them.
DerivedNames ==
    UNION { IF auto_output(PreAfterOption, m, n) = NULL THEN {}
            ELSE {Deref(auto_output(PreAfterOption, m, n))} :
            m \in {OP_READ, OP_WRITE}, n \in Names }
FsAll ==
    [p \in Names \cup DerivedNames |->
        IF p \in Names THEN File(MODE_666, OldContent, FALSE)
        ELSE File(MODE_600, OldContent, FALSE)]
    @@ TtyDevice
Environment(f, u, t) == [fs |-> f, umask |-> u, stdoutTTY |-> t]
\* The environments a run starts in.
Environments ==
    { Environment(FsEmpty, UMASK_022, FALSE),
      Environment(FsInputs, UMASK_022, TRUE),
      Environment(FsInputs, 0, FALSE),
      Environment(FsAll, UMASK_022, FALSE),
      Environment(FsAll, 0, TRUE) }

(***************************************************************************)
(* The state of one run of main.                                           *)
(***************************************************************************)
VARIABLES
    pc,                  \* where main is: getopt, args, open_in, open_out,
                         \* dispatch, cleanup, exit
    nopts,               \* options consumed so far
    op, level, tar, keep_input, extreme, ipath, opath,
    cmdline,             \* the command line as read so far: the last -i and
                         \* -o arguments and the last of -d, -x, -l
    gBlockFraction, gPipelineProcessMax, gPipelineQSize,
    argv,                \* the positional arguments (argv after argv += optind)
    pre,                 \* the bytes in memory before argv[0]
    iremove, gInFile, gOutFile,
    fs,                  \* the files that exist: path -> mode, content, tty
    umask, stdoutTTY,
    status, msg,         \* the exit status and the message printed with it
    calls,               \* the engine entry points invoked, in order
    outbytes,            \* the bytes the engine wrote to gOutFile
    fs0,                 \* the files as they were when the process started
    sufoffs              \* the start offsets of the strsuf calls made

config == <<op, level, tar, keep_input, extreme, ipath, opath, cmdline,
            gBlockFraction, gPipelineProcessMax, gPipelineQSize>>
streams == <<gInFile, gOutFile>>
environment == <<umask, stdoutTTY, fs0>>
effects == <<fs, calls, outbytes, sufoffs>>
vars == <<pc, nopts, config, argv, pre, iremove, streams, environment,
          status, msg, effects>>

NO_STREAM == [kind |-> "none", path |-> <<>>]
STDIN == [kind |-> "stdin", path |-> <<>>]
STDOUT == [kind |-> "stdout", path |-> <<>>]
FileStream(p) == [kind |-> "file", path |-> p]

\* The raw argument list is the input of the run: the options are read one
\* at a time by the getopt actions, the positional arguments by GetoptEnd.
MainEntry ==
    /\ pc = "getopt"
    /\ nopts = 0
    /\ level = U32(LZMA_PRESET_DEFAULT)
    /\ tar = TRUE
    /\ keep_input = FALSE
    /\ extreme = FALSE
    /\ op = OP_WRITE
    /\ ipath = NULL
    /\ opath = NULL
    /\ cmdline = [i |-> NULL, o |-> NULL, mode |-> NULL]
    /\ gBlockFraction = NULL
    /\ gPipelineProcessMax = NULL
    /\ gPipelineQSize = NULL
    /\ argv = <<>>
    /\ pre = <<>>
    /\ iremove = FALSE
    /\ gInFile = NO_STREAM
    /\ gOutFile = NO_STREAM
    /\ status = RUNNING
    /\ msg = MSG_NONE
    /\ calls = <<>>
    /\ outbytes = <<>>
    /\ sufoffs = <<>>

Init ==
    /\ MainEntry
    /\ \E e \in Environments :
          /\ fs = e.fs
          /\ fs0 = e.fs
          /\ umask = e.umask
          /\ stdoutTTY = e.stdoutTTY

(***************************************************************************)
(* usage, version and die end the process.                                 *)
(***************************************************************************)
usage(m) ==
    /\ pc' = "exit"
    /\ status' = (IF m = NULL THEN EXIT_OK ELSE EXIT_USAGE)
    /\ msg' = (IF m = NULL THEN MSG_HELP ELSE Deref(m))

version ==
    /\ pc' = "exit"
    /\ status' = EXIT_OK
    /\ msg' = MSG_VERSION

die(m) ==
    /\ pc' = "exit"
    /\ status' = EXIT_DIE
    /\ msg' = m

(***************************************************************************)
(* The getopt loop: one action for each case of the switch.                *)
(***************************************************************************)
\* getopt returned an option: the loop body runs once.
Consumed ==
    /\ pc = "getopt"
    /\ nopts < MaxFlags
    /\ nopts' = nopts + 1
    /\ UNCHANGED <<argv, pre, iremove, streams, environment, effects>>

Continue ==
    /\ pc' = "getopt"
    /\ UNCHANGED <<status, msg>>

OptC ==
    /\ Consumed /\ Continue
    /\ UNCHANGED config

OptD ==
    /\ Consumed /\ Continue
    /\ op' = OP_READ
    /\ cmdline' = [cmdline EXCEPT !.mode = Ptr("d")]
    /\ UNCHANGED <<level, tar, keep_input, extreme, ipath, opath,
                   gBlockFraction, gPipelineProcessMax, gPipelineQSize>>

OptX ==
    /\ Consumed /\ Continue
    /\ op' = OP_EXTRACT
    /\ cmdline' = [cmdline EXCEPT !.mode = Ptr("x")]
    /\ UNCHANGED <<level, tar, keep_input, extreme, ipath, opath,
                   gBlockFraction, gPipelineProcessMax, gPipelineQSize>>

OptL ==
    /\ Consumed /\ Continue
    /\ op' = OP_LIST
    /\ cmdline' = [cmdline EXCEPT !.mode = Ptr("l")]
    /\ UNCHANGED <<level, tar, keep_input, extreme, ipath, opath,
                   gBlockFraction, gPipelineProcessMax, gPipelineQSize>>

OptI ==
    /\ Consumed /\ Continue
    /\ \E optarg \in Names :
          /\ ipath' = Ptr(optarg)
          /\ cmdline' = [cmdline EXCEPT !.i = Ptr(optarg)]
    /\ UNCHANGED <<op, level, tar, keep_input, extreme, opath,
                   gBlockFraction, gPipelineProcessMax, gPipelineQSize>>

OptO ==
    /\ Consumed /\ Continue
    /\ \E optarg \in Names \cup {TtyName} :
          /\ opath' = Ptr(optarg)
          /\ cmdline' = [cmdline EXCEPT !.o = Ptr(optarg)]
    /\ UNCHANGED <<op, level, tar, keep_input, extreme, ipath,
                   gBlockFraction, gPipelineProcessMax, gPipelineQSize>>

OptT ==
    /\ Consumed /\ Continue
    /\ tar' = FALSE
    /\ UNCHANGED <<op, level, keep_input, extreme, ipath, opath, cmdline,
                   gBlockFraction, gPipelineProcessMax, gPipelineQSize>>

OptK ==
    /\ Consumed /\ Continue
    /\ keep_input' = TRUE
    /\ UNCHANGED <<op, level, tar, extreme, ipath, opath, cmdline,
                   gBlockFraction, gPipelineProcessMax, gPipelineQSize>>

OptH ==
    /\ Consumed
    /\ usage(NULL)
    /\ UNCHANGED config

OptE ==
    /\ Consumed /\ Continue
    /\ extreme' = TRUE
    /\ UNCHANGED <<op, level, tar, keep_input, ipath, opath, cmdline,
                   gBlockFraction, gPipelineProcessMax, gPipelineQSize>>

OptV ==
    /\ Consumed
    /\ version
    /\ UNCHANGED config

OptF ==
    /\ Consumed
    /\ \E optarg \in OptArgs :
          LET r == strtod(optarg)
          IN  IF r.end # <<>> \/ r.val <= 0
              THEN /\ usage(Ptr(MSG_F))
                   /\ UNCHANGED gBlockFraction
              ELSE /\ Continue
                   /\ gBlockFraction' = Ptr(r.val)
    /\ UNCHANGED <<op, level, tar, keep_input, extreme, ipath, opath, cmdline,
                   gPipelineProcessMax, gPipelineQSize>>

OptP ==
    /\ Consumed
    /\ \E optarg \in OptArgs :
          LET r == strtol(optarg)
          IN  IF r.val < 0 \/ r.end # <<>>
              THEN /\ usage(Ptr(MSG_P))
                   /\ UNCHANGED gPipelineProcessMax
              ELSE /\ Continue
                   /\ gPipelineProcessMax' = Ptr(r.val)
    /\ UNCHANGED <<op, level, tar, keep_input, extreme, ipath, opath, cmdline,
                   gBlockFraction, gPipelineQSize>>

OptQ ==
    /\ Consumed
    /\ \E optarg \in OptArgs :
          LET r == strtol(optarg)
          IN  IF r.val <= 0 \/ r.end # <<>>
              THEN /\ usage(Ptr(MSG_Q))
                   /\ UNCHANGED gPipelineQSize
              ELSE /\ Continue
                   /\ gPipelineQSize' = Ptr(r.val)
    /\ UNCHANGED <<op, level, tar, keep_input, extreme, ipath, opath, cmdline,
                   gBlockFraction, gPipelineProcessMax>>

\* The level digits tried: -9.
LevelDigits == {9}

OptDigit ==
    /\ Consumed /\ Continue
    /\ \E ch \in LevelDigits : level' = U32(ch)
    /\ UNCHANGED <<op, tar, keep_input, extreme, ipath, opath, cmdline,
                   gBlockFraction, gPipelineProcessMax, gPipelineQSize>>

\* getopt returned '?' (an option that is not in the option string, or one
\* without its argument) or 'v', which has no case of its own.
OptUnknown ==
    /\ Consumed
    /\ usage(Ptr(MSG_BADOPT))
    /\ UNCHANGED config

\* getopt returned -1; argc -= optind, argv += optind.
GetoptEnd ==
    /\ pc = "getopt"
    /\ pc' = "args"
    /\ \E a \in ArgLists, p \in PreChoices :
          /\ argv' = a
          /\ pre' = (IF a = <<>> THEN <<>> ELSE p)
    /\ UNCHANGED <<nopts, config, iremove, streams, environment, status, msg,
                   effects>>

(***************************************************************************)
(* The positional arguments.                                               *)
(***************************************************************************)
TooManyArgs_atLeastTwo(o, argc) == argc >= 2

TooManyArgs(o, argc) == argc > 2 \/ (o = OP_LIST /\ argc = 2)

\* The positional arguments name the files in every mode but Extract.
TakesPaths(o, argc) == o # OP_EXTRACT /\ argc >= 1

MultipleInput_unchecked(ip) == FALSE

MultipleInput(ip) == ip # NULL

\* What the block of positional arguments leaves: the two paths, iremove,
\* the usage message it stopped with (NULL: none), the strsuf offsets.
positional(o, ip, out, av, pr) ==
    LET argc == Len(av)
        none == [ipath |-> ip, opath |-> out, iremove |-> FALSE,
                 usage |-> NULL, offs |-> <<>>]
    IN  IF ~TakesPaths(o, argc) THEN none
        ELSE IF TooManyArgs(o, argc)
        THEN [none EXCEPT !.usage = Ptr(MSG_TOOMANY)]
        ELSE IF MultipleInput(ip)
        THEN [none EXCEPT !.usage = Ptr(MSG_MULTI_IN)]
        ELSE IF argc = 2
        THEN IF out # NULL
             THEN [none EXCEPT !.ipath = Ptr(av[1]),
                               !.usage = Ptr(MSG_MULTI_OUT)]
             ELSE [none EXCEPT !.ipath = Ptr(av[1]), !.opath = Ptr(av[2])]
        ELSE IF o # OP_LIST
        THEN LET r == auto_output(pr, o, av[1])
             IN  [ipath |-> Ptr(av[1]), opath |-> r, iremove |-> TRUE,
                  usage |-> IF r = NULL THEN Ptr(MSG_SUFFIX) ELSE NULL,
                  offs |-> strsuf_offsets(pr, o, av[1])]
        ELSE [none EXCEPT !.ipath = Ptr(av[1])]

\* gInFile = stdin ... usage("Unknown suffix").
ParseArgs ==
    /\ pc = "args"
    /\ LET r == positional(op, ipath, opath, argv, pre)
       IN  /\ gInFile' = STDIN
           /\ gOutFile' = STDOUT
           /\ ipath' = r.ipath
           /\ opath' = r.opath
           /\ iremove' = r.iremove
           /\ sufoffs' = r.offs
           /\ IF r.opath = SEGV
              THEN /\ pc' = "exit"
                   /\ status' = EXIT_SIGSEGV
                   /\ msg' = MSG_SEGV
              ELSE IF r.usage # NULL
              THEN usage(r.usage)
              ELSE /\ pc' = "open_in"
                   /\ UNCHANGED <<status, msg>>
    /\ UNCHANGED <<nopts, op, level, tar, keep_input, extreme, cmdline,
                   gBlockFraction, gPipelineProcessMax, gPipelineQSize,
                   argv, pre, environment, fs, calls, outbytes>>

(***************************************************************************)
(* The streams.                                                            *)
(***************************************************************************)
Exists(p) == p \in DOMAIN fs

\* fopen(ipath, "r"): a file that does not exist cannot be opened, and one
\* that exists may still be refused.
OpenInput ==
    /\ pc = "open_in"
    /\ IF ipath = NULL
       THEN /\ pc' = "open_out"
            /\ UNCHANGED <<gInFile, status, msg>>
       ELSE \E granted \in BOOLEAN :
               IF Exists(Deref(ipath)) /\ granted
               THEN /\ gInFile' = FileStream(Deref(ipath))
                    /\ pc' = "open_out"
                    /\ UNCHANGED <<status, msg>>
               ELSE /\ die(MSG_OPEN_IN)
                    /\ UNCHANGED gInFile
    /\ UNCHANGED <<nopts, config, argv, pre, iremove, gOutFile, environment,
                   effects>>

\* The file system after fopen(p, "w"): the file is created with 0666 less
\* the umask, or, when it exists, cut to length zero.
fopen_w(f, p) ==
    IF p \in DOMAIN f
    THEN [f EXCEPT ![p].content = <<>>]
    ELSE [q \in DOMAIN f \cup {p} |->
            IF q = p THEN File(BitClear(FOPEN_MODE, umask), <<>>, FALSE)
            ELSE f[q]]

\* The file system after open(p, O_CREAT | O_WRONLY, mode): the file is
\* created with the mode less the umask, or, when it exists, left as it is.
open_creat_wronly(f, p, mode) ==
    IF p \in DOMAIN f
    THEN f
    ELSE [q \in DOMAIN f \cup {p} |->
            IF q = p
            THEN File(BitClear(BitAnd(mode, S_IALLUGO), umask), <<>>, FALSE)
            ELSE f[q]]

\* stat(ipath, &input_stat): the mode of the file just opened for reading.
stat_mode(f, p) == f[p].mode

\* if (opath) { ... }: the three outcomes of each branch.
OpenOutput ==
    /\ pc = "open_out"
    /\ IF opath = NULL
       THEN /\ pc' = "dispatch"
            /\ UNCHANGED <<gOutFile, fs, status, msg>>
       ELSE IF gInFile = STDIN
       THEN \E granted \in BOOLEAN :
               IF granted
               THEN /\ fs' = fopen_w(fs, Deref(opath))
                    /\ gOutFile' = FileStream(Deref(opath))
                    /\ pc' = "dispatch"
                    /\ UNCHANGED <<status, msg>>
               ELSE /\ die(MSG_OPEN_OUT)
                    /\ UNCHANGED <<gOutFile, fs>>
       ELSE \E outcome \in {"opened", "open fails", "fdopen fails"} :
               LET created == open_creat_wronly(fs, Deref(opath),
                                  stat_mode(fs, Deref(ipath)))
               IN  CASE outcome = "opened" ->
                          /\ fs' = created
                          /\ gOutFile' = FileStream(Deref(opath))
                          /\ pc' = "dispatch"
                          /\ UNCHANGED <<status, msg>>
                     [] outcome = "open fails" ->
                          /\ die(MSG_OPEN_OUT)
                          /\ UNCHANGED <<gOutFile, fs>>
                     [] outcome = "fdopen fails" ->
                          /\ fs' = created
                          /\ die(MSG_OPEN_OUT)
                          /\ UNCHANGED gOutFile
    /\ UNCHANGED <<nopts, config, argv, pre, iremove, gInFile, environment,
                   calls, outbytes, sufoffs>>

(***************************************************************************)
(* The switch on op, and the engine behind it.                             *)
(***************************************************************************)
isatty(f) ==
    \/ f.kind = "stdout" /\ stdoutTTY
    \/ f.kind = "file" /\ fs[f.path].tty

tty_check_everyMode(o, f) == isatty(f)

\* case OP_WRITE: if (isatty(fileno(gOutFile))).
tty_check(o, f) == o = OP_WRITE /\ isatty(f)

\* level |= LZMA_PRESET_EXTREME.
with_extreme(lv, ex) ==
    IF ex THEN lv \cup {LZMA_PRESET_EXTREME_BIT} ELSE lv

Call(fn, t, lv, members) ==
    [fn |-> fn, tar |-> t, level |-> lv, members |-> members]

engine_call_readMembers(o, t, lv, ex, av) ==
    CASE o = OP_WRITE   -> Call("pixz_write", t, Ptr(with_extreme(lv, ex)), <<>>)
      [] o = OP_READ    -> Call("pixz_read", t, NULL, av)
      [] o = OP_EXTRACT -> Call("pixz_read", t, NULL, av)
      [] o = OP_LIST    -> Call("pixz_list", t, NULL, <<>>)

\* The entry point each case of the switch calls, with its arguments.
engine_call(o, t, lv, ex, av) ==
    CASE o = OP_WRITE   -> Call("pixz_write", t, Ptr(with_extreme(lv, ex)), <<>>)
      [] o = OP_READ    -> Call("pixz_read", t, NULL, <<>>)
      [] o = OP_EXTRACT -> Call("pixz_read", t, NULL, av)
      [] o = OP_LIST    -> Call("pixz_list", t, NULL, <<>>)

\* Bytes written from offset zero of a file that was not cut first.
Overwrite(old, data) ==
    data \o SubSeq(old, Len(data) + 1, Len(old))

\* The engine writes some bytes to gOutFile, then returns or dies.
Dispatch ==
    /\ pc = "dispatch"
    /\ IF tty_check(op, gOutFile)
       THEN /\ usage(Ptr(MSG_TTY))
            /\ UNCHANGED <<level, calls, outbytes, fs>>
       ELSE /\ level' = (IF op = OP_WRITE THEN with_extreme(level, extreme)
                         ELSE level)
            /\ calls' = Append(calls,
                           engine_call(op, tar, level, extreme, argv))
            /\ \E data \in EngineData, returns \in BOOLEAN :
                  /\ outbytes' = data
                  /\ fs' = (IF gOutFile.kind = "file"
                            THEN [fs EXCEPT ![gOutFile.path].content =
                                                Overwrite(@, data)]
                            ELSE fs)
                  /\ IF returns
                     THEN /\ pc' = "cleanup"
                          /\ UNCHANGED <<status, msg>>
                     ELSE die(MSG_ENGINE)
    /\ UNCHANGED <<nopts, op, tar, keep_input, extreme, ipath, opath, cmdline,
                   gBlockFraction, gPipelineProcessMax, gPipelineQSize,
                   argv, pre, iremove, streams, environment, sufoffs>>

(***************************************************************************)
(* if (iremove && !keep_input) unlink(ipath); return 0.                    *)
(***************************************************************************)
removes(rm, keep) == rm /\ ~keep

unlink(f, p) == [q \in DOMAIN f \ {p} |-> f[q]]

Cleanup ==
    /\ pc = "cleanup"
    /\ IF removes(iremove, keep_input) /\ Exists(Deref(ipath))
       THEN fs' = unlink(fs, Deref(ipath))
       ELSE UNCHANGED fs
    /\ pc' = "exit"
    /\ status' = EXIT_OK
    /\ UNCHANGED <<nopts, config, argv, pre, iremove, streams, environment,
                   msg, calls, outbytes, sufoffs>>

(***************************************************************************)
(* One run of main.                                                        *)
(***************************************************************************)
Next ==
    \/ OptC \/ OptD \/ OptX \/ OptL \/ OptI \/ OptO \/ OptT \/ OptK
    \/ OptH \/ OptE \/ OptV \/ OptF \/ OptP \/ OptQ \/ OptDigit
    \/ OptUnknown
    \/ GetoptEnd
    \/ ParseArgs
    \/ OpenInput
    \/ OpenOutput
    \/ Dispatch
    \/ Cleanup

Spec == Init /\ [][Next]_vars

(***************************************************************************)
(* The resolver alone: main at the positional arguments, in Read or Write  *)
(* mode, with one positional argument drawn from ResolverNames.            *)
(***************************************************************************)
InitResolver ==
    \E m \in {OP_READ, OP_WRITE}, n \in ResolverNames, p \in PreChoices :
        /\ pc = "args"
        /\ nopts = 0
        /\ level = U32(LZMA_PRESET_DEFAULT)
        /\ tar = TRUE
        /\ keep_input = FALSE
        /\ extreme = FALSE
        /\ op = m
        /\ ipath = NULL
        /\ opath = NULL
        /\ cmdline = [i |-> NULL, o |-> NULL, mode |-> NULL]
        /\ gBlockFraction = NULL
        /\ gPipelineProcessMax = NULL
        /\ gPipelineQSize = NULL
        /\ argv = <<n>>
        /\ pre = p
        /\ iremove = FALSE
        /\ gInFile = NO_STREAM
        /\ gOutFile = NO_STREAM
        /\ status = RUNNING
        /\ msg = MSG_NONE
        /\ calls = <<>>
        /\ outbytes = <<>>
            /\ sufoffs = <<>>
        /\ fs = FsEmpty
        /\ fs0 = FsEmpty
        /\ umask = UMASK_022
        /\ stdoutTTY = FALSE

NextResolver == ParseArgs

SpecResolver == InitResolver /\ [][NextResolver]_vars

(***************************************************************************)
(* The claims.                                                             *)
(***************************************************************************)
\* suf is a literal suffix of name.
IsLiteralSuffix(name, suf) ==
    /\ Len(name) >= Len(suf)
    /\ \A i \in 1..Len(suf) : name[Len(name) - Len(suf) + i] = suf[i]

\* The rules as the claim lists them.
ClaimRules ==
    << [mode |-> OP_READ,  remove |-> <<".", "t", "a", "r", ".", "x", "z">>,
                           append |-> <<".", "t", "a", "r">>],
       [mode |-> OP_READ,  remove |-> <<".", "t", "p", "x", "z">>,
                           append |-> <<".", "t", "a", "r">>],
       [mode |-> OP_READ,  remove |-> <<".", "x", "z">>, append |-> <<>>],
       [mode |-> OP_WRITE, remove |-> <<".", "t", "a", "r">>,
                           append |-> <<".", "t", "p", "x", "z">>],
       [mode |-> OP_WRITE, remove |-> <<>>, append |-> <<".", "x", "z">>] >>

\* The rules of the active mode whose remove-suffix ends the name.
MatchingRules(mode, name) ==
    { i \in 1..Len(ClaimRules) :
        /\ ClaimRules[i].mode = mode
        /\ IsLiteralSuffix(name, ClaimRules[i].remove) }

\* The result of the first matching rule, or NULL when no rule matches.
FirstRuleResult(mode, name) ==
    LET hits == MatchingRules(mode, name)
    IN  IF hits = {} THEN NULL
        ELSE LET i == CHOOSE k \in hits : \A j \in hits : k <= j
             IN  Ptr(SubSeq(name, 1, Len(name) - Len(ClaimRules[i].remove))
                     \o ClaimRules[i].append)

\* The resolver has been called: iremove is set just before the call.
Resolved == iremove /\ pc # "args"

\* C1: in Read and Write mode auto_output returns the result of the first
\* rule of the table that matches the mode and the end of the filename;
\* Write always has a result, and Read without one ends the run with the
\* usage error "Unknown suffix", exit status 2.
C1_FirstMatchingRule ==
    Resolved =>
        LET want == FirstRuleResult(op, argv[1])
        IN  /\ op \in {OP_READ, OP_WRITE}
            /\ opath = want
            /\ op = OP_WRITE => want # NULL
            /\ want = NULL =>
                  pc = "exit" /\ status = EXIT_USAGE /\ msg = MSG_SUFFIX
            /\ want # NULL => msg # MSG_SUFFIX

\* A Read run on a name shorter than ".tar.xz" that ends in ".xz": the
\* first two rules are tried on bytes before the name, the third fires.
C1_Witness ==
    /\ Resolved
    /\ op = OP_READ
    /\ argv[1] = <<"a", ".", "x", "z">>
    /\ opath = Ptr(<<"a">>)
    /\ pc = "open_in"

\* The input file named on the command line was there at the start and is
\* gone now.
InputRemoved ==
    /\ ipath # NULL
    /\ Deref(ipath) \in DOMAIN fs0
    /\ Deref(ipath) \notin DOMAIN fs

\* The run is over and the engine call returned.
EndedWell == pc = "exit" /\ status = EXIT_OK /\ calls # <<>>

\* C2: the input file is removed only after the engine call has returned,
\* and then exactly when the output name was derived and -k was not given;
\* a run that ends in an error, a run with -k and a run with an output
\* path given by the user all leave the input file in place.
C2_InputRemovedOnlyWhenDerived ==
    /\ InputRemoved => EndedWell /\ iremove /\ ~keep_input
    /\ EndedWell /\ iremove /\ ~keep_input => InputRemoved
    /\ pc = "exit" /\ (status # EXIT_OK \/ keep_input \/ cmdline.o # NULL)
          => ~InputRemoved

\* Main is past the positional arguments and has not exited.
Provisioning == pc \in {"open_in", "open_out", "dispatch", "cleanup"}

\* C3: in a run with -o PATH that reaches the opening of the streams,
\* auto_output is not called, the output path is PATH, the output stream is
\* opened on PATH, and the input is not marked for removal.
C3_ExplicitOutputIsUsed ==
    Provisioning /\ cmdline.o # NULL =>
        /\ sufoffs = <<>>
        /\ opath = cmdline.o
        /\ ~iremove
        /\ pc \in {"dispatch", "cleanup"} =>
              gOutFile = FileStream(Deref(cmdline.o))

\* C4: once both streams are open on named files, the output file has
\* exactly the mode bits of the input file; with standard input, a file
\* that had to be created has the default mode, 0666 less the umask.
C4_OutputModeIsInputMode ==
    pc = "dispatch" /\ gOutFile.kind = "file" =>
        IF gInFile.kind = "file"
        THEN fs[gOutFile.path].mode = fs[gInFile.path].mode
        ELSE gOutFile.path \notin DOMAIN fs0 =>
                fs[gOutFile.path].mode = BitClear(FOPEN_MODE, umask)

\* C9: every strsuf call auto_output makes starts its comparison at a
\* non-negative offset into the filename, and subsuf never copies a
\* negative number of bytes.
C9_OffsetsNonNegative ==
    /\ \A i \in 1..Len(sufoffs) : sufoffs[i] >= 0
    /\ opath # SEGV

\* C10: when the output file, a file other than the input, existed with
\* content, after a run that ended well it holds the bytes the engine wrote
\* and nothing else, with standard input and with a named input alike.
C10_OldContentIsGone ==
    /\ EndedWell
    /\ gOutFile.kind = "file"
    /\ gInFile.path # gOutFile.path
    /\ gOutFile.path \in DOMAIN fs0
    /\ fs0[gOutFile.path].content # <<>>
    => fs[gOutFile.path].content = outbytes

\* No file that was there at the start has been removed.
NothingRemoved == DOMAIN fs0 \subseteq DOMAIN fs

\* C5: in Write mode a terminal as output stream ends the run at the switch
\* with the usage error "Refusing to output to a TTY", exit status 2, with
\* no engine call and no file removed; in the other modes the terminal
\* check is not made and the engine is called.
C5_WriteRefusesTTY ==
    /\ [](msg = MSG_TTY =>
            /\ pc = "exit"
            /\ status = EXIT_USAGE
            /\ op = OP_WRITE
            /\ calls = <<>>
            /\ NothingRemoved)
    /\ [][pc = "dispatch" =>
            IF op = OP_WRITE /\ isatty(gOutFile)
            THEN msg' = MSG_TTY /\ calls' = <<>> /\ fs' = fs
            ELSE msg' # MSG_TTY /\ Len(calls') = 1]_vars

\* A Write run from a named file to a named terminal device, refused.
C5_Witness ==
    /\ pc = "exit"
    /\ msg = MSG_TTY
    /\ status = EXIT_USAGE
    /\ gInFile.kind = "file"
    /\ gOutFile = FileStream(TtyName)
    /\ gInFile.path \in DOMAIN fs

\* The mode the command line asks for: Write, or what the last of -d, -x
\* and -l says.
ClaimedMode ==
    CASE cmdline.mode = NULL -> OP_WRITE
      [] cmdline.mode = Ptr("d") -> OP_READ
      [] cmdline.mode = Ptr("x") -> OP_EXTRACT
      [] cmdline.mode = Ptr("l") -> OP_LIST

\* The engine call the claim names for each mode.
ClaimedCall ==
    CASE ClaimedMode = OP_WRITE ->
            [fn |-> "pixz_write", tar |-> tar,
             level |-> Ptr(IF extreme
                           THEN level \cup {LZMA_PRESET_EXTREME_BIT}
                           ELSE level \ {LZMA_PRESET_EXTREME_BIT}),
             members |-> <<>>]
      [] ClaimedMode = OP_READ ->
            [fn |-> "pixz_read", tar |-> tar, level |-> NULL,
             members |-> <<>>]
      [] ClaimedMode = OP_EXTRACT ->
            [fn |-> "pixz_read", tar |-> tar, level |-> NULL,
             members |-> argv]
      [] ClaimedMode = OP_LIST ->
            [fn |-> "pixz_list", tar |-> tar, level |-> NULL,
             members |-> <<>>]

\* C6 as claimed: every run that reaches the switch on op invokes exactly
\* one engine entry point, the one of its mode with the arguments of its
\* mode, and no step elsewhere invokes one.
C6_AlwaysOneCall ==
    [][IF pc = "dispatch"
       THEN calls' = <<ClaimedCall>>
       ELSE calls' = calls]_vars

\* C6 as amended: the same, but for a Write run whose output stream is a
\* terminal, which is refused at the switch and invokes no entry point.
C6_OneCallUnlessRefused ==
    [][IF pc = "dispatch"
       THEN IF ClaimedMode = OP_WRITE /\ isatty(gOutFile)
            THEN calls' = <<>> /\ pc' = "exit"
            ELSE calls' = <<ClaimedCall>>
       ELSE calls' = calls]_vars

\* An Extract run with -e and three member names: read is called with the
\* three names, and -e adds nothing to a call that is not write.
C6_Witness ==
    /\ pc = "cleanup"
    /\ op = OP_EXTRACT
    /\ Len(argv) = 3
    /\ extreme
    /\ calls = << [fn |-> "pixz_read", tar |-> tar, level |-> NULL,
                   members |-> argv] >>

\* The positional arguments are more than the mode takes.
OverLimit ==
    \/ op \in {OP_WRITE, OP_READ} /\ Len(argv) > 2
    \/ op = OP_LIST /\ Len(argv) > 1

\* No file has been opened, created or removed.
NoFileTouched ==
    /\ fs = fs0
    /\ gInFile.kind # "file"
    /\ gOutFile.kind # "file"

\* C7: Extract takes any number of positional arguments, keeps them all as
\* member names and takes none of them as a path; Write and Read with more
\* than two, and List with more than one, end with the usage error "Too
\* many arguments", exit status 2, before any file is opened.
C7_ArgumentCount ==
    /\ [](msg = MSG_TOOMANY =>
            pc = "exit" /\ status = EXIT_USAGE /\ NoFileTouched)
    /\ [](op = OP_EXTRACT /\ pc # "getopt" =>
            /\ ipath = cmdline.i
            /\ opath = cmdline.o
            /\ ~iremove
            /\ calls # <<>> => calls[1].members = argv)
    /\ [][pc = "args" =>
            /\ argv' = argv
            /\ op = OP_EXTRACT => pc' = "open_in" /\ msg' = MSG_NONE
            /\ OverLimit => pc' = "exit" /\ msg' = MSG_TOOMANY
            /\ ~OverLimit => msg' # MSG_TOOMANY]_vars

\* An Extract run with -i and three positional arguments, past the check.
C7_Witness ==
    /\ pc = "open_in"
    /\ op = OP_EXTRACT
    /\ Len(argv) = 3
    /\ ipath = cmdline.i
    /\ ipath # NULL
    /\ opath = NULL

\* C8 as claimed: in Write, Read and List modes -i with a positional
\* argument ends the run with "Multiple input files specified", and -o with
\* a second positional argument ends it with "Multiple output files
\* specified", exit status 2, before any file is touched.
C8_MultipleFiles ==
    [][pc = "args" /\ op # OP_EXTRACT =>
          /\ ipath # NULL /\ Len(argv) >= 1 =>
                /\ pc' = "exit" /\ status' = EXIT_USAGE
                /\ msg' = MSG_MULTI_IN
                /\ NoFileTouched'
          /\ opath # NULL /\ Len(argv) >= 2 =>
                /\ pc' = "exit" /\ status' = EXIT_USAGE
                /\ msg' = MSG_MULTI_OUT
                /\ NoFileTouched']_vars

\* C8 as amended: the same when the positional arguments are no more than
\* the mode takes; more than that end the run with "Too many arguments".
\* With both -i and -o the message is the one for the input.
C8_MultipleFilesWithinLimit ==
    /\ [](msg \in {MSG_MULTI_IN, MSG_MULTI_OUT} =>
            pc = "exit" /\ status = EXIT_USAGE /\ NoFileTouched)
    /\ [][pc = "args" /\ op # OP_EXTRACT =>
            /\ ~OverLimit /\ ipath # NULL /\ Len(argv) >= 1 =>
                  msg' = MSG_MULTI_IN
            /\ ~OverLimit /\ opath # NULL /\ Len(argv) >= 2 /\ ipath = NULL =>
                  msg' = MSG_MULTI_OUT
            /\ OverLimit => msg' = MSG_TOOMANY]_vars

\* -i a -o b and one positional argument: "Multiple input files specified".
C8_Witness ==
    /\ pc = "exit"
    /\ msg = MSG_MULTI_IN
    /\ status = EXIT_USAGE
    /\ cmdline.i # NULL
    /\ cmdline.o # NULL
    /\ Len(argv) = 1
    /\ NoFileTouched

====
